---- MODULE Spec2Model ----
(***************************************************************************)
(* Model of web/ordering/models.py of the ESPA ordering application: the   *)
(* Order id generators, the default option factories, the Configuration    *)
(* key/value lookup, the unique orderid column, and the Order and Scene    *)
(* records as they are written by the code that uses them.                 *)
(*                                                                         *)
(* Text is a sequence of characters, each character a one-character        *)
(* string; "U+00E9" stands for one non-ASCII character.                    *)
(***************************************************************************)
EXTENDS Integers, Sequences, FiniteSets, TLC

VARIABLES
    email,          \* the requestor whose ids are generated
    prev,           \* the id generator call before the last one
    last,           \* the last id generator call
    order_source,   \* Order.order_source of the order whose options are built
    o,              \* the option dictionary being built
    applied,        \* the factories merged into o so far, in order
    config,         \* the Configuration table: its rows in primary key order
    ret,            \* the last Configuration.getValue call and its outcome
    orders,         \* the Order table: its rows in primary key order
    lastSubmit,     \* the last order submission and its outcome
    order,          \* one Order record
    scene,          \* one Scene row as stored
    pc,             \* each pipeline worker's position
    copy,           \* each worker's in-memory instance of the Scene
    written,        \* the status each worker last saved
    saved,          \* the outcome of each worker's last save
    stale,          \* whether the row had changed under the worker's last save
    lastWriter      \* the worker whose save was applied last

idVars == <<email, prev, last>>
optVars == <<order_source, o, applied>>
cfgVars == <<config, ret>>
tblVars == <<orders, lastSubmit>>
recVars == <<order>>
scnVars == <<scene, pc, copy, written, saved, stale, lastWriter>>
vars == <<idVars, optVars, cfgVars, tblVars, recVars, scnVars>>

----------------------------------------------------------------------------
(* Bounds *)

\* longest email / Earth Explorer order id drawn as an input
MaxLen == 2

\* longest Configuration value stored
MaxValueLen == 2

\* most Orders stored
MaxOrders == 3

----------------------------------------------------------------------------
(* Each specification below exercises one part of models.py; the variables *)
(* of the other parts stay at rest.                                        *)

NoCall == [kind |-> "none"]
NoRow == [status |-> "none"]

IdleIds == email = <<>> /\ prev = NoCall /\ last = NoCall
IdleOptions == order_source = "none" /\ o = <<>> /\ applied = <<>>
IdleConfig == config = <<>> /\ ret = NoCall
IdleOrders == orders = <<>> /\ lastSubmit = NoCall
IdleOrder == order = NoRow
IdleScene ==
    /\ scene = NoRow
    /\ pc = <<>> /\ copy = <<>> /\ written = <<>> /\ saved = <<>> /\ stale = <<>>
    /\ lastWriter = "none"

----------------------------------------------------------------------------
(* Text helpers: Python's  '%s' % x  *)

\* texts over alphabet A of length 0..n
TextsUpTo(A, n) == UNION {[1..k -> A] : k \in 0..n}

Digits == <<"0", "1", "2", "3", "4", "5", "6", "7", "8", "9">>

RECURSIVE IntStr(_)
\* '%s' % n for a non-negative int n: its decimal digits, no padding
IntStr(n) == IF n < 10 THEN <<Digits[n + 1]>>
             ELSE IntStr(n \div 10) \o <<Digits[(n % 10) + 1]>>

RECURSIVE PyFormat(_, _)
\* fmt % args: fmt is the format split into its pieces, "%s" being the
\* conversion; each conversion consumes the next argument
PyFormat(fmt, args) ==
    IF fmt = <<>> THEN <<>>
    ELSE IF Head(fmt) = "%s"
         THEN Head(args) \o PyFormat(Tail(fmt), Tail(args))
         ELSE <<Head(fmt)>> \o PyFormat(Tail(fmt), args)

----------------------------------------------------------------------------
(* Order.generate_order_id, Order.generate_ee_order_id *)

\* readings of datetime.datetime.now() drawn as inputs
ClockReadings ==
    [month : {1, 11}, day : {2, 12}, year : {2013, 2014},
     hour : {1, 11}, minute : {2, 12}, second : {3, 30}]

EmailChars == {"u", "-"}
Emails == TextsUpTo(EmailChars, MaxLen) \ {<<>>}
EEOrderChars == {"7", "-"}
EEOrders == TextsUpTo(EEOrderChars, MaxLen)

\* '%s-%s%s%s-%s%s%s' % (email, d.month, d.day, d.year, d.hour, d.minute, d.second)
generate_order_id(e, d) ==
    PyFormat(<<"%s", "-", "%s", "%s", "%s", "-", "%s", "%s", "%s">>,
             <<e, IntStr(d.month), IntStr(d.day), IntStr(d.year),
               IntStr(d.hour), IntStr(d.minute), IntStr(d.second)>>)

\* the separator left out of the format: '%s%s' % (email, eeorder)
generate_ee_order_id_nosep(e, eeorder) ==
    PyFormat(<<"%s", "%s">>, <<e, eeorder>>)

\* '%s-%s' % (email, eeorder)
generate_ee_order_id(e, eeorder) ==
    PyFormat(<<"%s", "-", "%s">>, <<e, eeorder>>)

\* one requestor; no id generated yet
InitIds ==
    /\ email \in Emails
    /\ prev = NoCall
    /\ last = NoCall
    /\ IdleOptions /\ IdleConfig /\ IdleOrders /\ IdleOrder /\ IdleScene

\* a call of generate_order_id(email) while the clock reads d
GenerateOrderId(d) ==
    /\ prev' = last
    /\ last' = [kind |-> "espa", now |-> d, id |-> generate_order_id(email, d)]
    /\ UNCHANGED <<email, optVars, cfgVars, tblVars, recVars, scnVars>>

\* a call of generate_ee_order_id(email, eeorder)
GenerateEEOrderId(eeorder) ==
    /\ prev' = last
    /\ last' = [kind |-> "ee", eeorder |-> eeorder,
                id |-> generate_ee_order_id(email, eeorder)]
    /\ UNCHANGED <<email, optVars, cfgVars, tblVars, recVars, scnVars>>

NextOrderId == \E d \in ClockReadings : GenerateOrderId(d)

SpecOrderId == InitIds /\ [][NextOrderId]_vars

NextEEOrderId == \E x \in EEOrders : GenerateEEOrderId(x)

SpecEEOrderId == InitIds /\ [][NextEEOrderId]_vars

\* zero-padded decimal of n, at least w digits ('%02d' when w = 2)
ZeroPad(n, w) ==
    LET s == IntStr(n)
    IN  IF Len(s) >= w THEN s ELSE [i \in 1..(w - Len(s)) |-> "0"] \o s

\* C1: every id generate_order_id returns is the email, a hyphen, the month
\* and the day (1 or 2 digits each), the 4-digit year, a hyphen, and the
\* hour, minute and second of the call-time clock as two digits each.
C1_OrderIdIsPaddedTimestamp ==
    last.kind = "espa" =>
        last.id = email \o <<"-">>
                  \o IntStr(last.now.month) \o IntStr(last.now.day)
                  \o ZeroPad(last.now.year, 4) \o <<"-">>
                  \o ZeroPad(last.now.hour, 2) \o ZeroPad(last.now.minute, 2)
                  \o ZeroPad(last.now.second, 2)

\* C9: for one email, two calls of generate_order_id whose clock readings
\* differ in month, day, year, hour, minute or second return different ids.
C9_DistinctSecondsDistinctIds ==
    (prev.kind = "espa" /\ last.kind = "espa" /\ prev.now # last.now)
        => prev.id # last.id

\* C2: generate_ee_order_id(email, eeorder) is email, "-", eeorder, and for
\* the one email two different eeorder values give two different ids.
C2_EEOrderIdConcatInjective ==
    /\ last.kind = "ee" => last.id = email \o <<"-">> \o last.eeorder
    /\ (prev.kind = "ee" /\ last.kind = "ee" /\ prev.eeorder # last.eeorder)
          => prev.id # last.id

\* two calls for one email whose eeorder values differ, one holding a hyphen
C2_Witness ==
    /\ prev.kind = "ee" /\ last.kind = "ee"
    /\ prev.eeorder # last.eeorder
    /\ \E i \in DOMAIN last.eeorder : last.eeorder[i] = "-"
    /\ \E i \in DOMAIN email : email[i] = "-"

----------------------------------------------------------------------------
(* Order.get_default_*_options.  A dictionary is a function from its keys; *)
(* False, True and None are written "False", "True" and "None".            *)

RECURSIVE Assign(_, _)
\* the dictionary d after  d[k] = v  for each <<k, v>> of kvs in turn
Assign(d, kvs) ==
    IF kvs = <<>> THEN d
    ELSE Assign((kvs[1][1] :> kvs[1][2]) @@ d, Tail(kvs))

\* dict.update: d with every key of u set to u's value
Update(d, u) == u @@ d

EmptyDict == <<>>

get_default_product_options ==
    Assign(EmptyDict, <<
        <<"include_sourcefile", "False">>,
        <<"include_source_metadata", "False">>,
        <<"include_sr_toa", "False">>,
        <<"include_sr_thermal", "False">>,
        <<"include_sr", "False">>,
        <<"include_sr_browse", "False">>,
        <<"include_sr_ndvi", "False">>,
        <<"include_sr_ndmi", "False">>,
        <<"include_sr_nbr", "False">>,
        <<"include_sr_nbr2", "False">>,
        <<"include_sr_savi", "False">>,
        <<"include_sr_msavi", "False">>,
        <<"include_sr_evi", "False">>,
        <<"include_swe", "False">>,
        <<"include_sca", "False">>,
        <<"include_solr_index", "False">>,
        <<"include_cfmask", "False">> >>)

get_default_projection_options ==
    Assign(EmptyDict, <<
        <<"reproject", "False">>,
        <<"target_projection", "None">>,
        <<"central_meridian", "None">>,
        <<"false_easting", "None">>,
        <<"false_northing", "None">>,
        <<"origin_lat", "None">>,
        <<"std_parallel_1", "None">>,
        <<"std_parallel_2", "None">>,
        <<"datum", "wgs84">>,
        <<"utm_zone", "None">>,
        <<"utm_north_south", "None">> >>)

get_default_subset_options ==
    Assign(EmptyDict, <<
        <<"image_extents", "False">>,
        <<"minx", "None">>,
        <<"miny", "None">>,
        <<"maxx", "None">>,
        <<"maxy", "None">> >>)

\* the resize factory also setting a key of the projection factory
get_default_resize_options_overlap ==
    Assign(EmptyDict, <<
        <<"resize", "False">>,
        <<"reproject", "True">>,
        <<"pixel_size", "None">>,
        <<"pixel_size_units", "None">> >>)

get_default_resize_options ==
    Assign(EmptyDict, <<
        <<"resize", "False">>,
        <<"pixel_size", "None">>,
        <<"pixel_size_units", "None">> >>)

get_default_resample_options ==
    Assign(EmptyDict, <<
        <<"resample_method", "near">> >>)

\* the five factories get_default_options merges, in the order it merges them
Factories == <<"product", "projection", "subset", "resize", "resample">>

Factory(f) ==
    CASE f = "product" -> get_default_product_options
      [] f = "projection" -> get_default_projection_options
      [] f = "subset" -> get_default_subset_options
      [] f = "resize" -> get_default_resize_options
      [] f = "resample" -> get_default_resample_options

RECURSIVE MergeAll(_, _)
\* d after d.update(factory) for each factory of fs in turn
MergeAll(d, fs) ==
    IF fs = <<>> THEN d ELSE MergeAll(Update(d, Factory(Head(fs))), Tail(fs))

get_default_options == MergeAll(EmptyDict, Factories)

get_default_ee_options ==
    Assign(EmptyDict, <<
        <<"include_sourcefile", "False">>,
        <<"include_source_metadata", "False">>,
        <<"include_sr_toa", "False">>,
        <<"include_sr_thermal", "False">>,
        <<"include_sr", "True">>,
        <<"include_sr_browse", "False">>,
        <<"include_sr_ndvi", "False">>,
        <<"include_sr_ndmi", "False">>,
        <<"include_sr_nbr", "False">>,
        <<"include_sr_nbr2", "False">>,
        <<"include_sr_savi", "False">>,
        <<"include_sr_evi", "False">>,
        <<"include_solr_index", "False">>,
        <<"include_cfmask", "False">>,
        <<"reproject", "False">>,
        <<"resize", "False">>,
        <<"image_extents", "False">> >>)

ORDER_SOURCE == {"espa", "ee"}

\* an order of either source, its option dictionary still  o = {}
InitOptions ==
    /\ order_source \in ORDER_SOURCE
    /\ o = EmptyDict
    /\ applied = <<>>
    /\ IdleIds /\ IdleConfig /\ IdleOrders /\ IdleOrder /\ IdleScene

\* one  o.update(self.get_default_<f>_options())  of get_default_options,
\* the five taken in any order
UpdateFrom(f) ==
    /\ order_source = "espa"
    /\ \A i \in DOMAIN applied : applied[i] # f
    /\ o' = Update(o, Factory(f))
    /\ applied' = Append(applied, f)
    /\ UNCHANGED <<order_source, idVars, cfgVars, tblVars, recVars, scnVars>>

\* get_default_ee_options() for an order placed through Earth Explorer
DefaultEEOptions ==
    /\ order_source = "ee"
    /\ applied = <<>>
    /\ o' = get_default_ee_options
    /\ applied' = <<"ee">>
    /\ UNCHANGED <<order_source, idVars, cfgVars, tblVars, recVars, scnVars>>

NextOptions ==
    \/ \E f \in {Factories[i] : i \in DOMAIN Factories} : UpdateFrom(f)
    \/ DefaultEEOptions

SpecOptions == InitOptions /\ [][NextOptions]_vars

\* the option set of the order is complete
OptionsBuilt ==
    \/ order_source = "espa" /\ Len(applied) = Len(Factories)
    \/ order_source = "ee" /\ applied = <<"ee">>

\* the product inclusion flags: the keys of the 'espa' product defaults
ProductFlags == DOMAIN get_default_product_options

\* C3: the 'ee' defaults have include_sr true, every other product inclusion
\* flag of the 'espa' defaults present and false, reproject and resize false;
\* the 'espa' defaults have every product inclusion flag false.
C3_EEDefaultsCoverProductFlags ==
    OptionsBuilt =>
        IF order_source = "ee"
        THEN /\ "include_sr" \in DOMAIN o /\ o["include_sr"] = "True"
             /\ \A k \in ProductFlags \ {"include_sr"} :
                    k \in DOMAIN o /\ o[k] = "False"
             /\ "reproject" \in DOMAIN o /\ o["reproject"] = "False"
             /\ "resize" \in DOMAIN o /\ o["resize"] = "False"
        ELSE \A k \in ProductFlags : k \in DOMAIN o /\ o[k] = "False"

FactorySet == {Factories[i] : i \in DOMAIN Factories}

\* C10: the key sets of the five factories are pairwise disjoint, so the
\* merged dictionary has exactly the union of their keys, each key with its
\* own factory's value, whatever the order of the five updates, and it is
\* the dictionary get_default_options returns.
C10_MergeIsDisjointUnion ==
    (order_source = "espa" /\ Len(applied) = Len(Factories)) =>
        /\ \A f, g \in FactorySet :
               f # g => DOMAIN Factory(f) \cap DOMAIN Factory(g) = {}
        /\ DOMAIN o = UNION {DOMAIN Factory(f) : f \in FactorySet}
        /\ \A f \in FactorySet : \A k \in DOMAIN Factory(f) : o[k] = Factory(f)[k]
        /\ o = get_default_options

\* the five merged in an order other than the one get_default_options uses
C10_Witness ==
    /\ order_source = "espa"
    /\ Len(applied) = Len(Factories)
    /\ applied # Factories
    /\ applied[1] = "resample"

----------------------------------------------------------------------------
(* Configuration: a key/value table, key unique; Configuration.getValue.   *)
(* The ORM hands a CharField's value back as unicode text, and the module  *)
(* is Python 2 (its models define __unicode__), where str() of unicode     *)
(* text encodes it as ASCII.                                               *)

ConfigKeys == {"k1", "k2"}
AsciiChars == {"v"}
NonAsciiChars == {"U+00E9"}
ConfigValues == TextsUpTo(AsciiChars \cup NonAsciiChars, MaxValueLen)

\* str(u) of unicode text u: the same characters when all are ASCII,
\* UnicodeEncodeError otherwise
PyStr(u) ==
    IF \A i \in DOMAIN u : u[i] \in AsciiChars
    THEN [kind |-> "return", value |-> u]
    ELSE [kind |-> "raise", value |-> <<"UnicodeEncodeError">>]

\* Configuration.objects.filter(key=key): the rows with that key
FilterKey(table, key) == SelectSeq(table, LAMBDA r : r.key = key)

\* Configuration.getValue(key) on the table: the table it leaves and what it
\* returns or raises
getValue(table, key) ==
    LET c == FilterKey(table, key)
    IN  IF Len(c) > 0
        THEN [table |-> table] @@ PyStr(c[1].value)
        ELSE [table |-> table, kind |-> "return", value |-> <<>>]

InitConfig ==
    /\ config = <<>>
    /\ ret = NoCall
    /\ IdleIds /\ IdleOptions /\ IdleOrders /\ IdleOrder /\ IdleScene

\* an operator creates a row; the unique key refuses a second row of a key
ConfigCreate(k, v) ==
    /\ FilterKey(config, k) = <<>>
    /\ config' = Append(config, [key |-> k, value |-> v])
    /\ UNCHANGED <<ret, idVars, optVars, tblVars, recVars, scnVars>>

\* an operator changes the value of row i
ConfigUpdate(i, v) ==
    /\ i \in DOMAIN config
    /\ config[i].value # v
    /\ config' = [config EXCEPT ![i].value = v]
    /\ UNCHANGED <<ret, idVars, optVars, tblVars, recVars, scnVars>>

\* an operator deletes row i
ConfigDelete(i) ==
    /\ i \in DOMAIN config
    /\ config' = [j \in 1..(Len(config) - 1) |->
                     IF j < i THEN config[j] ELSE config[j + 1]]
    /\ UNCHANGED <<ret, idVars, optVars, tblVars, recVars, scnVars>>

\* a call of getValue(k)
GetValue(k) ==
    LET r == getValue(config, k)
    IN  /\ config' = r.table
        /\ ret' = [kind |-> r.kind, value |-> r.value, key |-> k,
                   before |-> config, after |-> r.table]
        /\ UNCHANGED <<idVars, optVars, tblVars, recVars, scnVars>>

NextConfig ==
    \/ \E k \in ConfigKeys, v \in ConfigValues : ConfigCreate(k, v)
    \/ \E i \in 1..Cardinality(ConfigKeys), v \in ConfigValues : ConfigUpdate(i, v)
    \/ \E i \in 1..Cardinality(ConfigKeys) : ConfigDelete(i)
    \/ \E k \in ConfigKeys : GetValue(k)

SpecConfig == InitConfig /\ [][NextConfig]_vars

\* the rows of the table the last getValue call ran on that have its key
RetRows == {i \in DOMAIN ret.before : ret.before[i].key = ret.key}

\* C4: getValue(key) returns the empty string when no row has the key,
\* returns the stored value when exactly one row has it, never raises for a
\* missing key, and leaves the table unchanged.
C4_GetValueReturnsStoredOrEmpty ==
    ret.kind # "none" =>
        /\ RetRows = {} => (ret.kind = "return" /\ ret.value = <<>>)
        /\ \A i \in RetRows :
               RetRows = {i} =>
                   (ret.kind = "return" /\ ret.value = ret.before[i].value)
        /\ ret.after = ret.before

\* what getValue does keep: the same, for the missing key and for the stored
\* values that are ASCII text
GetValueOnAsciiOrMissing ==
    ret.kind # "none" =>
        /\ RetRows = {} => (ret.kind = "return" /\ ret.value = <<>>)
        /\ \A i \in RetRows :
               (RetRows = {i} /\ \A j \in DOMAIN ret.before[i].value :
                                     ret.before[i].value[j] \in AsciiChars) =>
                   (ret.kind = "return" /\ ret.value = ret.before[i].value)
        /\ ret.after = ret.before

----------------------------------------------------------------------------
(* The Order table: orderid is a unique column.  Orders are submitted by   *)
(* the ordering views, which generate the id and save the new row.         *)

\* the requestors and clock readings of the submissions
SubmitEmails == {<<"u">>, <<"u", "-">>}
SubmitClocks ==
    {d \in [month : {1, 11}, day : {2, 12}, year : {2013},
            hour : {1}, minute : {2}, second : {3, 30}] :
        d.month = 1 \/ d.second = 3}
SubmitEEClocks == {d \in SubmitClocks : d.month = 11 /\ d.day = 2}
SubmitEEOrders == {<<"7">>}

\* the insert with no unique index on orderid
InsertOrderNoIndex(table, row) ==
    [table |-> Append(table, row), error |-> "none"]

\* INSERT of row into the Order table under  orderid ... unique=True : the
\* table after it, and the error raised
InsertOrder(table, row) ==
    IF \E i \in DOMAIN table : table[i].orderid = row.orderid
    THEN [table |-> table, error |-> "IntegrityError"]
    ELSE [table |-> Append(table, row), error |-> "none"]

InitOrders ==
    /\ orders = <<>>
    /\ lastSubmit = NoCall
    /\ IdleIds /\ IdleOptions /\ IdleConfig /\ IdleOrder /\ IdleScene

\* a submission saves an Order under orderid id; an error of the insert
\* propagates to the caller
Submit(kind, e, d, id) ==
    LET r == InsertOrder(orders, [orderid |-> id, email |-> e, order_date |-> d])
    IN  /\ r.error = "none" => Len(orders) < MaxOrders
        /\ orders' = r.table
        /\ lastSubmit' = [kind |-> kind, orderid |-> id, email |-> e, now |-> d,
                          before |-> orders, raised |-> r.error]
        /\ UNCHANGED <<idVars, optVars, cfgVars, recVars, scnVars>>

\* a bulk or api order of requestor e while the clock reads d
SubmitOrder(e, d) == Submit("espa", e, d, generate_order_id(e, d))

\* an order of requestor e that came from Earth Explorer as order x, loaded
\* while the clock reads d
SubmitEEOrder(e, d, x) == Submit("ee", e, d, generate_ee_order_id(e, x))

NextOrders ==
    \/ \E e \in SubmitEmails, d \in SubmitClocks : SubmitOrder(e, d)
    \/ \E e \in SubmitEmails, d \in SubmitEEClocks, x \in SubmitEEOrders :
           SubmitEEOrder(e, d, x)

SpecOrders == InitOrders /\ [][NextOrders]_vars

\* the last submission's id was already stored when it was made
Collided ==
    \E i \in DOMAIN lastSubmit.before :
        lastSubmit.before[i].orderid = lastSubmit.orderid

\* C5: no two stored Orders share an order_id; a submission whose generated
\* id is already stored fails at insert, the failure reaches the caller, and
\* the stored orders are unchanged by it.
C5_OrderIdsUnique ==
    /\ \A i, j \in DOMAIN orders :
           i # j => orders[i].orderid # orders[j].orderid
    /\ lastSubmit.kind # "none" =>
           IF Collided
           THEN lastSubmit.raised = "IntegrityError" /\ orders = lastSubmit.before
           ELSE lastSubmit.raised = "none"

\* a second submission of one requestor within the same clock second failed
C5_Witness ==
    /\ lastSubmit.kind = "espa"
    /\ lastSubmit.raised = "IntegrityError"
    /\ \E i \in DOMAIN orders :
           /\ orders[i].orderid = lastSubmit.orderid
           /\ orders[i].email = lastSubmit.email
           /\ orders[i].order_date = lastSubmit.now
    /\ Len(orders) >= 2

----------------------------------------------------------------------------
(* One Order record under writes to its fields.  An assignment to a field  *)
(* followed by save() stores the value as given: the model defines no      *)
(* save(), clean() or validator of its own.                                *)

ORDER_TYPES == {"level2_ondemand", "lpvs"}
ORDER_STATUS == {"ordered", "partial", "complete"}
\* completion_date: None, or one of two instants
CompletionDates == {"None", "t1", "t2"}
Notes == {"None", "note"}
EEOrderIds == {"", "7"}

\* the record as submission creates it
InitOrder ==
    /\ order \in [status : {"ordered"}, completion_date : {"None"},
                  order_type : ORDER_TYPES, order_source : ORDER_SOURCE,
                  note : {"None"}, ee_order_id : {""}]
    /\ IdleIds /\ IdleOptions /\ IdleConfig /\ IdleOrders /\ IdleScene

\* order.<field> = value; order.save()
WriteOrderField(field, value) ==
    /\ order[field] # value
    /\ order' = [order EXCEPT ![field] = value]
    /\ UNCHANGED <<idVars, optVars, cfgVars, tblVars, scnVars>>

NextOrder ==
    \/ \E v \in ORDER_STATUS : WriteOrderField("status", v)
    \/ \E v \in CompletionDates : WriteOrderField("completion_date", v)
    \/ \E v \in Notes : WriteOrderField("note", v)
    \/ \E v \in EEOrderIds : WriteOrderField("ee_order_id", v)

SpecOrder == InitOrder /\ [][NextOrder]_vars

\* C6: in every state of an Order record, under any sequence of writes to
\* its fields, completion_date is set only when status is complete.
C6_CompletionDateOnlyWhenComplete ==
    order.completion_date # "None" => order.status = "complete"

----------------------------------------------------------------------------
(* One Scene row and the pipeline workers that update its status: each     *)
(* loads the Scene, sets status on its instance and saves it.              *)

SCENE_STATUS == {"submitted", "onorder", "oncache", "queued", "processing",
                 "complete", "purged", "unavailable", "error"}

Workers == {"w1", "w2"}

\* a save that follows the lifecycle: nothing leaves a terminal status, and
\* complete is entered from processing only
SceneSaveLifecycle(row, base, status) ==
    IF \/ row.status \in {"complete", "purged", "unavailable", "error"}
       \/ (status = "complete" /\ row.status # "processing")
    THEN [row |-> row, result |-> "rejected"]
    ELSE [row |-> [row EXCEPT !.status = status], result |-> "saved"]

\* a save that compares the row with what the worker loaded
SceneSaveCompareAndSwap(row, base, status) ==
    IF row # base
    THEN [row |-> row, result |-> "rejected"]
    ELSE [row |-> [row EXCEPT !.status = status], result |-> "saved"]

\* instance.status = status; instance.save(), the instance loaded as base
\* and the stored row now being row: the row it leaves, and the outcome.
\* Scene has no version field and no save() of its own; status is a plain
\* CharField.
SceneSave(row, base, status) ==
    [row |-> [base EXCEPT !.status = status], result |-> "saved"]

\* the Scene as the order's expansion creates it; no worker holds it
InitScene ==
    /\ scene = [status |-> "submitted"]
    /\ pc = [w \in Workers |-> "idle"]
    /\ copy = [w \in Workers |-> NoRow]
    /\ written = [w \in Workers |-> "none"]
    /\ saved = [w \in Workers |-> "none"]
    /\ stale = [w \in Workers |-> FALSE]
    /\ lastWriter = "none"
    /\ IdleIds /\ IdleOptions /\ IdleConfig /\ IdleOrders /\ IdleOrder

\* worker w reads the Scene
Load(w) ==
    /\ pc[w] = "idle"
    /\ copy' = [copy EXCEPT ![w] = scene]
    /\ pc' = [pc EXCEPT ![w] = "loaded"]
    /\ UNCHANGED <<scene, written, saved, stale, lastWriter>>
    /\ UNCHANGED <<idVars, optVars, cfgVars, tblVars, recVars>>

\* worker w sets status v on its instance and saves it
Save(w, v) ==
    LET r == SceneSave(scene, copy[w], v)
    IN  /\ pc[w] = "loaded"
        /\ scene' = r.row
        /\ saved' = [saved EXCEPT ![w] = r.result]
        /\ written' = [written EXCEPT ![w] = v]
        /\ stale' = [stale EXCEPT ![w] = (scene # copy[w])]
        /\ lastWriter' = w
        /\ pc' = [pc EXCEPT ![w] = "idle"]
        /\ UNCHANGED <<copy, idVars, optVars, cfgVars, tblVars, recVars>>

NextScene ==
    \/ \E w \in Workers : Load(w)
    \/ \E w \in Workers, v \in SCENE_STATUS : Save(w, v)

SpecScene == InitScene /\ [][NextScene]_vars

\* C7: a write of any of the nine status values is accepted from each of the
\* nine, the terminal ones included, and the Scene then holds exactly the
\* value written.
C7_AnyStatusWriteAccepted ==
    lastWriter # "none" =>
        /\ saved[lastWriter] = "saved"
        /\ scene.status = written[lastWriter]

\* submitted -> complete directly, then complete -> submitted
C7_Witness ==
    \E w, x \in Workers :
        /\ w # x
        /\ lastWriter = w
        /\ ~stale[w] /\ copy[w].status = "complete"
        /\ written[x] = "complete" /\ copy[x].status = "submitted"
        /\ scene.status = "submitted"

\* C8: when two workers read one Scene and then each write a status, both
\* writes succeed with no version check and the final status is the value
\* of the write applied last: the earlier write is overwritten.
C8_LastWriteWins ==
    \A w \in Workers :
        (lastWriter = w /\ stale[w]) =>
            /\ \A x \in Workers : saved[x] \in {"none", "saved"}
            /\ saved[w] = "saved"
            /\ scene.status = written[w]

\* a lost update: both loaded the same row, both saved, the second save
\* replaced the first worker's value
C8_Witness ==
    \E w, x \in Workers :
        /\ w # x
        /\ lastWriter = w /\ stale[w]
        /\ copy[w] = copy[x]
        /\ pc[w] = "idle" /\ pc[x] = "idle"
        /\ saved[w] = "saved" /\ saved[x] = "saved"
        /\ written[x] # written[w]
        /\ written[x] # copy[w].status
        /\ scene.status = written[w]

====
